---- MODULE Spec2Model ----
(***************************************************************************)
(* Model of abel/tools/center.py: origin estimators, the preprocessor of   *)
(* center_image and the resampler/cropper set_center.                      *)
(*                                                                         *)
(* Coordinates are fixed-point numbers: an origin component x is held as   *)
(* the integer x * Den.  An image is a record [rows, cols, px] whose cell  *)
(* px[<<i, j>>] says WHERE in the input image the value was sampled:       *)
(* << <<u>>, <<v>> >> is the input sampled at row u / Den, column v / Den, *)
(* and a cell with an empty component is a zero of the fill / padding.     *)
(* So an exact copy of input cell (r, c) is << <<r*Den>>, <<c*Den>> >>,    *)
(* and two output images are equal iff they sample the input alike.        *)
(***************************************************************************)
EXTENDS Integers, Sequences, FiniteSets, TLC

\* ----------------------------------------------------------------- bounds
\* Largest number of rows / columns of an input image.
MaxDim == 3
\* Denominator of the fixed-point coordinates (fractions are k / Den).
Den == 4
\* Highest interpolation order of set_center (docstring: 0-5).
MaxOrder == 5

\* ---------------------------------------------------------------- helpers
Max(a, b) == IF a >= b THEN a ELSE b
Min(a, b) == IF a <= b THEN a ELSE b

\* Python's None, and a present value, as an optional.
None == <<>>
Some(x) == <<x>>

\* int(x) of a fixed-point x: truncation towards zero.
PyInt(x) == IF x >= 0 THEN x \div Den ELSE -((-x) \div Den)

\* int(round(x)) of a fixed-point x, as Python 3 rounds: ties go to the even
\* integer.  (Python 2 rounds ties away from zero; no property below reads
\* the value of a tie.)
PyRound(x) ==
    LET f == x \div Den
        r == x % Den
    IN  IF 2 * r < Den THEN f
        ELSE IF 2 * r > Den THEN f + 1
        ELSE IF f % 2 = 0 THEN f ELSE f + 1

\* One bound of a Python slice over a sequence of length n.
PyIndex(k, n) == IF k < 0 THEN Max(k + n, 0) ELSE Min(k, n)

\* slice(start, stop) over length n, start and stop optional: the half-open
\* index range <<lo, hi>> it selects (hi = lo when it selects nothing).
Slice(start, stop, n) ==
    LET lo == IF start = None THEN 0 ELSE PyIndex(start[1], n)
        hi == IF stop = None THEN n ELSE PyIndex(stop[1], n)
    IN  <<lo, Max(lo, hi)>>

SliceLen(s) == s[2] - s[1]

\* ----------------------------------------------------------------- images
Zero == <<None, None>>
IsZero(c) == c[1] = None \/ c[2] = None

Cells(n, m) == (0 .. n - 1) \X (0 .. m - 1)

\* The input image: cell (r, c) holds the input's own sample (r, c).
Image(n, m) ==
    [rows |-> n, cols |-> m,
     px |-> [p \in Cells(n, m) |-> <<Some(p[1] * Den), Some(p[2] * Den)>>]]

\* np.zeros_like(a)
zeros_like(a) ==
    [rows |-> a.rows, cols |-> a.cols, px |-> [p \in Cells(a.rows, a.cols) |-> Zero]]

\* a[rs[1]:rs[2], cs[1]:cs[2]] for resolved index ranges rs, cs.
Take(a, rs, cs) ==
    [rows |-> SliceLen(rs), cols |-> SliceLen(cs),
     px |-> [p \in Cells(SliceLen(rs), SliceLen(cs)) |->
                a.px[<<p[1] + rs[1], p[2] + cs[1]>>]]]

\* np.pad(a, (pr, pc), 'constant') with pr = <<before, after>> rows and
\* pc = <<before, after>> columns, all >= 0.
Pad(a, pr, pc) ==
    LET n == a.rows + pr[1] + pr[2]
        m == a.cols + pc[1] + pc[2]
    IN  [rows |-> n, cols |-> m,
         px |-> [p \in Cells(n, m) |->
                    LET i == p[1] - pr[1]
                        j == p[2] - pc[1]
                    IN  IF i >= 0 /\ i < a.rows /\ j >= 0 /\ j < a.cols
                        THEN a.px[<<i, j>>] ELSE Zero]]

\* scipy.ndimage.shift(a, s, order) for order > 0, mode 'constant', cval 0:
\* output cell (i, j) is the spline interpolant of a at (i, j) - s, and 0 where
\* that point lies beyond a's extent.  s is fixed-point.  The interpolant at a
\* point is named by the input coordinates it stands for, read off any
\* non-zero grid neighbour; it is 0 where all its grid neighbours are.
Sample(a, x, y) ==
    IF x < 0 \/ x > (a.rows - 1) * Den \/ y < 0 \/ y > (a.cols - 1) * Den
    THEN Zero
    ELSE LET k == x \div Den
             fx == x % Den
             l == y \div Den
             fy == y % Den
             near == {d \in {0, 1} \X {0, 1} :
                        /\ d[1] = 1 => fx # 0
                        /\ d[2] = 1 => fy # 0
                        /\ ~IsZero(a.px[<<k + d[1], l + d[2]>>])}
         IN  IF near = {} THEN Zero
             ELSE LET d == CHOOSE e \in near : TRUE
                      c == a.px[<<k + d[1], l + d[2]>>]
                  IN  <<Some(c[1][1] - d[1] * Den + fx),
                        Some(c[2][1] - d[2] * Den + fy)>>

shift(a, s, order) ==
    [rows |-> a.rows, cols |-> a.cols,
     px |-> [p \in Cells(a.rows, a.cols) |->
                Sample(a, p[1] * Den - s[1], p[2] * Den - s[2])]]

\* ---------------------------------------------------------------- results
\* What a call ends in: an image, a coordinate pair, or a raised exception.
NoImage == [rows |-> 0, cols |-> 0, px |-> [p \in {} |-> Zero]]
Return(img) == [err |-> "", msg |-> "", img |-> img]
Raise(e, m) == [err |-> e, msg |-> m, img |-> NoImage]

\* out[dst] = val for resolved index ranges dst = <<rows, cols>>: numpy
\* broadcasts val over the destination region, or raises ValueError.
Broadcasts(from, to) == from = to \/ from = 1
SetItem(out, dst, val) ==
    IF ~(/\ Broadcasts(val.rows, SliceLen(dst[1]))
         /\ Broadcasts(val.cols, SliceLen(dst[2])))
    THEN Raise("ValueError", "could not broadcast input array")
    ELSE Return(
        [rows |-> out.rows, cols |-> out.cols,
         px |-> [p \in Cells(out.rows, out.cols) |->
                    IF /\ p[1] >= dst[1][1] /\ p[1] < dst[1][2]
                       /\ p[2] >= dst[2][1] /\ p[2] < dst[2][2]
                    THEN val.px[<<IF val.rows = 1 THEN 0 ELSE p[1] - dst[1][1],
                                  IF val.cols = 1 THEN 0 ELSE p[2] - dst[2][1]>>]
                    ELSE out.px[p]]])

\* ------------------------------------------------------------- set_center
Axes == {0, 1}
Shape(a) == <<a.rows, a.cols>>

\* center_of(a): indices of the array center.
center_of(a) == <<(a.rows - 1) \div 2, (a.cols - 1) \div 2>>

\* axes as given (a tuple; an int is wrapped into a 1-element list) -> set.
AxesSet(axes) == {axes[k] : k \in DOMAIN axes}

\* One non-None origin coordinate o (fixed-point) on an axis of length n:
\* to absolute coordinates, then split into whole pixel i and fractional
\* remainder sub (order > 0) or rounded to a whole pixel (order = 0).
Absolute(o, n) == IF o < 0 THEN o + n * Den ELSE o
SplitOrigin(o, n, order) ==
    LET x == Absolute(o, n)
    IN  IF order # 0
        THEN [i |-> PyInt(x), sub |-> x - PyInt(x) * Den]
        ELSE [i |-> PyRound(x), sub |-> 0]

\* The loop over both axes that preprocesses the origin, and the order
\* actually used.  origin[a] and origin_[a] of a None coordinate are never
\* read (its axis is discarded and its subpixel is 0); they are held as 0.
Preprocess(data, origin, axes, order) ==
    LET shape == Shape(data)
        split == [a \in Axes |->
                    IF origin[a + 1] = None THEN [i |-> 0, sub |-> 0]
                    ELSE SplitOrigin(origin[a + 1][1], shape[a + 1], order)]
    IN  [axes |-> {a \in AxesSet(axes) : origin[a + 1] # None},
         origin |-> [a \in Axes |-> split[a].i],
         origin_ |-> [a \in Axes |->
                        IF origin[a + 1] = None THEN 0
                        ELSE shape[a + 1] - 1 - split[a].i],
         subpixel |-> [a \in Axes |-> split[a].sub],
         order |-> IF \A a \in Axes : split[a].sub = 0 THEN 0 ELSE order]

\* [:-1, :-1]: drop the trailing padding row and column.
CropTrailing(a) ==
    Take(a, Slice(None, Some(-1), a.rows), Slice(None, Some(-1), a.cols))

\* [1:-1, 1:-1]: crop the 1-pixel border of a padded array.
CropBorder_LeadingOnly(a) ==
    Take(a, Slice(Some(1), None, a.rows), Slice(Some(1), None, a.cols))
CropBorder(a) ==
    Take(a, Slice(Some(1), Some(-1), a.rows), Slice(Some(1), Some(-1), a.cols))

\* crop = 'maintain_size', fractional shift.
MaintainSizeFractional(data, pre) ==
    LET center == center_of(data)
        delta == [a \in Axes |->
                    IF a \in pre.axes
                    THEN (center[a + 1] - pre.origin[a]) * Den - pre.subpixel[a]
                    ELSE 0]
    IN  Return(CropBorder(shift(Pad(data, <<1, 1>>, <<1, 1>>),
                                <<delta[0], delta[1]>>, pre.order)))

\* crop = 'maintain_size', whole-pixel shift: source and destination regions.
SrcRegion(delta, n) == Slice(Some(Max(0, -delta)), Some(n - Max(0, delta)), n)
DstRegion(delta, n) == Slice(Some(Max(0, delta)), Some(n - Max(0, -delta)), n)

MaintainSizeWhole(data, pre) ==
    LET shape == Shape(data)
        center == center_of(data)
        delta == [a \in Axes |-> center[a + 1] - pre.origin[a]]
        src == [a \in Axes |->
                  IF a \in pre.axes THEN SrcRegion(delta[a], shape[a + 1])
                  ELSE Slice(None, None, shape[a + 1])]
        dst == [a \in Axes |->
                  IF a \in pre.axes THEN DstRegion(delta[a], shape[a + 1])
                  ELSE Slice(None, None, shape[a + 1])]
    IN  SetItem(zeros_like(data), <<dst[0], dst[1]>>, Take(data, src[0], src[1]))

\* Other crop options with order > 0: the subpixel shift that snaps the
\* origin onto a whole pixel, and the cut of the unused pixels.
Defractionalize(data, pre, crop) ==
    LET shifted == CropTrailing(
                       shift(Pad(data, <<1, 1>>, <<1, 1>>),
                             <<-pre.subpixel[0], -pre.subpixel[1]>>, pre.order))
        n == [a \in Axes |-> Shape(shifted)[a + 1]]
        cut == [a \in Axes |->
                  IF pre.subpixel[a] # 0
                  THEN IF crop = "valid_region"
                       THEN Slice(Some(1), Some(-1), n[a])
                       ELSE Slice(None, None, n[a])
                  ELSE Slice(Some(1), None, n[a])]
    IN  [data |-> Take(shifted, cut[0], cut[1]),
         origin |-> [a \in Axes |->
                       IF pre.subpixel[a] # 0 /\ crop # "valid_region"
                       THEN pre.origin[a] + 1 ELSE pre.origin[a]],
         origin_ |-> [a \in Axes |->
                        IF pre.subpixel[a] # 0 /\ crop = "valid_region"
                        THEN pre.origin_[a] - 1 ELSE pre.origin_[a]]]

\* crop = 'valid_region': the symmetric slice around origin o, with d the
\* distance to the closest edge, of an axis of length n.
ValidSlice_Short(o, d, n) == Slice(Some(o - d), Some(o + d), n)
ValidSlice(o, d, n) == Slice(Some(o - d), Some(o + d + 1), n)

ValidRegion(st, axes) ==
    LET src == [a \in Axes |->
                  IF a \in axes
                  THEN ValidSlice(st.origin[a], Min(st.origin[a], st.origin_[a]),
                                  Shape(st.data)[a + 1])
                  ELSE Slice(None, None, Shape(st.data)[a + 1])]
    IN  Return(Take(st.data, src[0], src[1]))

\* crop = 'maintain_data': the padding that symmetrizes around the origin,
\* with d the distance to the farthest edge.
DataPad_Swapped(o, o_, d) == <<d - o_, d - o>>
DataPad(o, o_, d) == <<d - o, d - o_>>

MaintainData(st, axes) ==
    LET pad == [a \in Axes |->
                  IF a \in axes
                  THEN DataPad(st.origin[a], st.origin_[a],
                               Max(st.origin[a], st.origin_[a]))
                  ELSE <<0, 0>>]
    IN  IF \E a \in Axes : pad[a][1] < 0 \/ pad[a][2] < 0
        THEN Raise("ValueError", "index can't contain negative values")
        ELSE Return(Pad(st.data, pad[0], pad[1]))

\* Any other crop option.
InvalidCrop_Ignored(data, crop) == Return(data)
InvalidCrop(data, crop) == Raise("ValueError", "Invalid crop option")

set_center(data, origin, crop, axes, order) ==
    LET pre == Preprocess(data, origin, axes, order)
    IN  IF crop = "maintain_size"
        THEN IF pre.order # 0 THEN MaintainSizeFractional(data, pre)
             ELSE MaintainSizeWhole(data, pre)
        ELSE LET st == IF pre.order # 0 THEN Defractionalize(data, pre, crop)
                       ELSE [data |-> data, origin |-> pre.origin,
                             origin_ |-> pre.origin_]
             IN  IF crop = "valid_region" THEN ValidRegion(st, pre.axes)
                 ELSE IF crop = "maintain_data" THEN MaintainData(st, pre.axes)
                 ELSE InvalidCrop(st.data, crop)

\* find_origin_by_center_of_image(data)
find_origin_by_center_of_image_Ceil(data) ==
    <<Some(((data.rows \div 2) + (data.rows % 2)) * Den),
      Some(((data.cols \div 2) + (data.cols % 2)) * Den)>>
find_origin_by_center_of_image(data) ==
    <<Some((data.rows \div 2) * Den), Some((data.cols \div 2) * Den)>>

\* ----------------------------------------------------------- center_image
\* if odd_size and cols % 2 == 0: drop the rightside column.
DropEvenColumn(im, odd) ==
    IF odd /\ im.cols % 2 = 0
    THEN Take(im, Slice(None, None, im.rows), Slice(None, Some(-1), im.cols))
    ELSE im

\* rows > cols: trim rows off both ends, then one more off the end.
TrimRows(im) ==
    LET diff == im.rows - im.cols
        trim == diff \div 2
        a == IF trim > 0
             THEN Take(im, Slice(Some(trim), Some(-trim), im.rows),
                       Slice(None, None, im.cols))
             ELSE im
    IN  IF diff % 2 # 0
        THEN Take(a, Slice(None, Some(-1), a.rows), Slice(None, None, a.cols))
        ELSE a

\* rows < cols: check row oddness, then trim columns off both sides.
TrimCols(im, odd) ==
    LET a == IF odd /\ im.rows % 2 = 0
             THEN Take(im, Slice(None, Some(-1), im.rows),
                       Slice(None, None, im.cols))
             ELSE im
        xs == (im.cols - a.rows) \div 2
    IN  Take(a, Slice(None, None, a.rows), Slice(Some(xs), Some(-xs), a.cols))

\* if square and rows != cols: make rows == cols.
MakeSquare(im, odd, sq) ==
    IF sq /\ im.rows # im.cols
    THEN IF im.rows > im.cols THEN TrimRows(im) ELSE TrimCols(im, odd)
    ELSE im

\* The image center_image hands to find_origin and to set_center.
Preprocessed(im, odd, sq) == MakeSquare(DropEvenColumn(im, odd), odd, sq)

\* find_origin(IM, method) for the estimator that reads no image data; the
\* other estimators return a data-dependent coordinate pair, which the
\* "given" origins stand for.
find_origin(im, m) == find_origin_by_center_of_image(im)

\* set_center's default interpolation order.
DefaultOrder == 3

center_image(im, m, o, odd, sq, ax, c) ==
    LET p == Preprocessed(im, odd, sq)
    IN  set_center(p, IF m = "given" THEN o ELSE find_origin(p, m),
                   c, ax, DefaultOrder)

\* --------------------------------------------------- find_origin_by_slice
\* Shifts the bounded minimizer may report (fixed-point, inside its bounds
\* of +-50 pixels), each with a success flag.
MaxShift == 2
FitShifts == {2 * k : k \in -MaxShift .. MaxShift}
Fits == [success : BOOLEAN, x : FitShifts]

\* (r2, c2) of axis_slices: the center the slice profiles run out from.
axis_slices_center(im) ==
    <<(im.rows \div 2) + (im.rows % 2), (im.cols \div 2) + (im.cols % 2)>>

\* (r2, c2) of find_origin_by_slice.
slice_center_AsSlices(im) ==
    <<(im.rows \div 2) + (im.rows % 2), (im.cols \div 2) + (im.cols % 2)>>
slice_center(im) == <<im.rows \div 2, im.cols \div 2>>

\* else: raise RuntimeError("fit failure: axis = ..., zero shift set", fit)
FitFailure_ZeroShift(st, a) == st
FitFailure(st, a) ==
    [st EXCEPT !.err = "RuntimeError",
               !.msg = IF a = 0 THEN "fit failure: axis = 0, zero shift set"
                       ELSE "fit failure: axis = 1, zero shift set"]

\* "if a in axis:" with the minimizer's answer fit; nothing once raised.
SliceAxis(st, a, requested, fit) ==
    IF st.err # "" \/ a \notin requested THEN st
    ELSE LET ran == [st EXCEPT !.calls = Append(@, [axis |-> a, fit |-> fit])]
         IN  IF fit.success
             THEN [ran EXCEPT !.xyoffset[a] = -(fit.x \div 2)]
             ELSE FitFailure(ran, a)

\* find_origin_by_slice(IM, axis=ax) where the minimizer would answer fit0
\* for the vertical and fit1 for the horizontal profiles.
find_origin_by_slice(im, ax, fit0, fit1) ==
    LET requested == {ax[k] : k \in DOMAIN ax}
        c == slice_center(im)
        st0 == [calls |-> <<>>, xyoffset |-> [a \in Axes |-> 0],
                err |-> "", msg |-> ""]
        st == SliceAxis(SliceAxis(st0, 0, requested, fit0), 1, requested, fit1)
    IN  [calls |-> st.calls, err |-> st.err, msg |-> st.msg,
         origin |-> IF st.err # "" THEN <<>>
                    ELSE <<Some(c[1] * Den - st.xyoffset[0]),
                           Some(c[2] * Den - st.xyoffset[1])>>]

\* --------------------------------------------- find_origin_by_convolution
\* Here the image holds numbers: px[<<i, j>>] is the intensity of the pixel.
RECURSIVE SumTo(_, _)
\* f[0] + ... + f[n - 1]
SumTo(f, n) == IF n <= 0 THEN 0 ELSE SumTo(f, n - 1) + f[n - 1]

\* IM.sum(axis=1): one sum per row.
SumAxis1(im) ==
    [i \in 0 .. im.rows - 1 |-> SumTo([j \in 0 .. im.cols - 1 |-> im.px[<<i, j>>]],
                                      im.cols)]
\* IM.sum(axis=0): one sum per column.
SumAxis0(im) ==
    [j \in 0 .. im.cols - 1 |-> SumTo([i \in 0 .. im.rows - 1 |-> im.px[<<i, j>>]],
                                      im.rows)]

\* np.convolve(q, q, mode='full') of a profile q of length n >= 1: length
\* 2n - 1, entry k the sum of q[i] * q[k - i].
convolve_same(q, n) ==
    [k \in 0 .. n - 1 |->
        LET kk == k + (n - 1) \div 2
        IN  SumTo([i \in 0 .. n - 1 |->
                     IF kk - i >= 0 /\ kk - i < n THEN q[i] * q[kk - i] ELSE 0], n)]
convolve(q, n) ==
    [k \in 0 .. 2 * n - 2 |->
        SumTo([i \in 0 .. n - 1 |->
                 IF k - i >= 0 /\ k - i < n THEN q[i] * q[k - i] ELSE 0], n)]

\* np.argmax(c): the first index of the maximum.
argmax(c) ==
    CHOOSE k \in DOMAIN c :
        /\ \A l \in DOMAIN c : c[l] <= c[k]
        /\ \A l \in DOMAIN c : l < k => c[l] < c[k]

\* k / 2 as a fixed-point coordinate (exact whenever k * Den is even).
HalfOf(k) == (k * Den) \div 2

find_origin_by_convolution(im) ==
    <<Some(HalfOf(argmax(convolve(SumAxis1(im), im.rows)))),
      Some(HalfOf(argmax(convolve(SumAxis0(im), im.cols))))>>

\* ------------------------------------------------------------------ state
VARIABLES
    pc,        \* "start": inputs chosen; "done": the call has ended
    IM,        \* the input image
    method,    \* "given": origin is a coordinate pair; else an estimator name
    origin,    \* the (row, col) origin, each an optional; <<>> until found
    crop,      \* crop option of the call ("" before it)
    axes,      \* axes argument of the call
    order,     \* interpolation order of the call
    odd_size,  \* center_image flag
    square,    \* center_image flag
    pre,       \* center_image: the image handed to find_origin / set_center
    axis,      \* find_origin_by_slice: the axis argument
    calls,     \* find_origin_by_slice: axes the minimizer was run for, in order
    ret        \* what the call ended in

vars == <<pc, IM, method, origin, crop, axes, order, odd_size, square, pre,
          axis, calls, ret>>

\* ----------------------------------------------------------------- inputs
Images == {Image(n, m) : n \in 1 .. MaxDim, m \in 1 .. MaxDim}

\* Origin coordinates tried on an axis of length n: None, the whole pixels
\* from well below -n to well above n, and every fraction from -n to n - 1.
WholeCoords(n) == {k * Den : k \in -(2 * n + 1) .. (2 * n + 1)}
FracCoords(n) == {x \in (-n * Den) .. ((n - 1) * Den) : x % Den # 0}
Coords(n) == {None} \cup {Some(x) : x \in WholeCoords(n) \cup FracCoords(n)}
Origins(img) == Coords(img.rows) \X Coords(img.cols)

CropOptions == {"maintain_size", "valid_region", "maintain_data", "bogus"}
AxesOptions == {<<0>>, <<1>>, <<0, 1>>}
Orders == 0 .. MaxOrder

NoCall == [err |-> "", msg |-> "", img |-> NoImage]

\* Everything but the inputs, before a call.
Idle ==
    /\ pc = "start"
    /\ crop = ""
    /\ axes = <<>>
    /\ order = 0
    /\ odd_size = FALSE
    /\ square = FALSE
    /\ pre = NoImage
    /\ axis = <<>>
    /\ calls = <<>>
    /\ ret = NoCall

\* --------------------------------------------------- set_center, directly
InitSetCenter ==
    /\ Idle
    /\ IM \in Images
    /\ \/ method = "given" /\ origin \in Origins(IM)
       \/ method = "image_center" /\ origin = <<>>

\* origin = find_origin_by_center_of_image(IM)
FindOriginByCenterOfImage ==
    /\ pc = "start"
    /\ method = "image_center"
    /\ origin = <<>>
    /\ origin' = find_origin_by_center_of_image(IM)
    /\ UNCHANGED <<pc, IM, method, crop, axes, order, odd_size, square, pre,
                   axis, calls, ret>>

\* ret = set_center(IM, origin, crop, axes, order)
SetCenter ==
    /\ pc = "start"
    /\ origin # <<>>
    /\ \E c \in CropOptions, ax \in AxesOptions, o \in Orders :
        /\ crop' = c
        /\ axes' = ax
        /\ order' = o
        /\ ret' = set_center(IM, origin, c, ax, o)
    /\ pc' = "done"
    /\ UNCHANGED <<IM, method, origin, odd_size, square, pre, axis, calls>>

NextSetCenter == FindOriginByCenterOfImage \/ SetCenter

SpecSetCenter == InitSetCenter /\ [][NextSetCenter]_vars

\* ----------------------------------------------------------- center_image
InitCenterImage ==
    /\ Idle
    /\ IM \in Images
    /\ \/ method = "given" /\ origin \in Origins(IM)
       \/ method = "image_center" /\ origin = <<>>

\* ret = center_image(IM, method, odd_size, square, axes, crop)
CenterImage ==
    /\ pc = "start"
    /\ \E odd \in BOOLEAN, sq \in BOOLEAN, c \in CropOptions, ax \in AxesOptions :
        /\ odd_size' = odd
        /\ square' = sq
        /\ crop' = c
        /\ axes' = ax
        /\ pre' = Preprocessed(IM, odd, sq)
        /\ ret' = center_image(IM, method, origin, odd, sq, ax, c)
    /\ order' = DefaultOrder
    /\ pc' = "done"
    /\ UNCHANGED <<IM, method, origin, axis, calls>>

NextCenterImage == CenterImage

SpecCenterImage == InitCenterImage /\ [][NextCenterImage]_vars

\* --------------------------------------------------- find_origin_by_slice
AxisOptions == {<<>>, <<0>>, <<1>>, <<0, 1>>, <<1, 0>>}

InitSlice ==
    /\ Idle
    /\ IM \in Images
    /\ method = "slice"
    /\ origin = <<>>

\* origin = find_origin_by_slice(IM, axis=ax)
FindOriginBySlice ==
    /\ pc = "start"
    /\ method = "slice"
    /\ \E ax \in AxisOptions, fit0 \in Fits, fit1 \in Fits :
        LET r == find_origin_by_slice(IM, ax, fit0, fit1)
        IN  /\ axis' = ax
            /\ calls' = r.calls
            /\ origin' = r.origin
            /\ ret' = [err |-> r.err, msg |-> r.msg, img |-> NoImage]
    /\ pc' = "done"
    /\ UNCHANGED <<IM, method, crop, axes, order, odd_size, square, pre>>

NextSlice == FindOriginBySlice

SpecSlice == InitSlice /\ [][NextSlice]_vars

\* --------------------------------------------- find_origin_by_convolution
\* Largest magnitude of the one non-zero pixel.
MaxValue == 2

\* The n x m image that is v at (r0, c0) and zero elsewhere.
Impulse(n, m, r0, c0, v) ==
    [rows |-> n, cols |-> m,
     px |-> [p \in Cells(n, m) |-> IF p = <<r0, c0>> THEN v ELSE 0]]

Impulses ==
    {Impulse(n, m, p[1], p[2], v) :
        <<n, m, p, v>> \in {<<n, m, p, v>> \in
            (1 .. MaxDim) \X (1 .. MaxDim) \X Cells(MaxDim, MaxDim)
                \X ((-MaxValue .. MaxValue) \ {0}) :
            p[1] < n /\ p[2] < m}}

InitConvolution ==
    /\ Idle
    /\ IM \in Impulses
    /\ method = "convolution"
    /\ origin = <<>>

\* origin = find_origin_by_convolution(IM)
FindOriginByConvolution ==
    /\ pc = "start"
    /\ method = "convolution"
    /\ origin' = find_origin_by_convolution(IM)
    /\ pc' = "done"
    /\ UNCHANGED <<IM, method, crop, axes, order, odd_size, square, pre, axis,
                   calls, ret>>

NextConvolution == FindOriginByConvolution

SpecConvolution == InitConvolution /\ [][NextConvolution]_vars

\* ----------------------------------------------------------------- claims
\* Vocabulary of the claims about a finished set_center call.
Whole(o) == o = None \/ o[1] % Den = 0
Fractional(o) == o # None /\ o[1] % Den # 0
\* An origin coordinate as a whole pixel counted from the near edge.
Pixel(o, n) == (IF o[1] < 0 THEN o[1] + n * Den ELSE o[1]) \div Den
Inside(o, n) ==
    o = None \/ LET x == IF o[1] < 0 THEN o[1] + n * Den ELSE o[1]
                IN  x >= 0 /\ x <= (n - 1) * Den
Active(a) == a \in {axes[k] : k \in DOMAIN axes} /\ origin[a + 1] # None
AxisLen(img, a) == IF a = 0 THEN img.rows ELSE img.cols
InputCell(i, j) == <<Some(i * Den), Some(j * Den)>>
SetCenterDone == pc = "done" /\ pre = NoImage /\ crop # ""

\* C1: set_center with crop = 'maintain_size' returns an array of the input's
\* shape, for every valid origin (None, or inside the image, whole or
\* fractional), every axes value and every order.
C1_MaintainSizeKeepsShape ==
    (/\ SetCenterDone
     /\ crop = "maintain_size"
     /\ \A a \in Axes : Inside(origin[a + 1], AxisLen(IM, a)))
    => /\ ret.err = ""
       /\ Shape(ret.img) = Shape(IM)

\* C1 witness: a fractional shift on both axes has kept the shape.
C1_Witness ==
    /\ SetCenterDone
    /\ crop = "maintain_size"
    /\ axes = <<0, 1>>
    /\ order = 3
    /\ IM.rows = 3 /\ IM.cols = 2
    /\ origin = <<Some(Den + 1), Some(1)>>
    /\ ret.err = ""
    /\ Shape(ret.img) = <<3, 2>>

\* C2: whole-pixel maintain_size never raises, for every whole origin, and
\* output cell i is input cell i - delta (delta = (shape-1)//2 - origin) where
\* that is inside the input and zero elsewhere, on each active axis.
C2_WholePixelShiftClips ==
    (/\ SetCenterDone
     /\ crop = "maintain_size"
     /\ \A a \in Axes : Whole(origin[a + 1]))
    => /\ ret.err = ""
       /\ Shape(ret.img) = Shape(IM)
       /\ LET delta == [a \in Axes |->
                          IF Active(a)
                          THEN (AxisLen(IM, a) - 1) \div 2
                               - Pixel(origin[a + 1], AxisLen(IM, a))
                          ELSE 0]
          IN  \A p \in Cells(IM.rows, IM.cols) :
                LET i == p[1] - delta[0]
                    j == p[2] - delta[1]
                IN  ret.img.px[p] =
                        IF i >= 0 /\ i < IM.rows /\ j >= 0 /\ j < IM.cols
                        THEN InputCell(i, j) ELSE Zero

\* C3: valid_region with a whole origin inside the image returns, on each
\* active axis, the input slice [origin-d : origin+d+1], d = min(origin,
\* shape-1-origin), of length 2d+1 <= shape with the origin sample at the
\* center index; inactive axes keep their full extent.
C3_ValidRegionIsSlice ==
    (/\ SetCenterDone
     /\ crop = "valid_region"
     /\ \A a \in Axes : Whole(origin[a + 1]) /\ Inside(origin[a + 1], AxisLen(IM, a)))
    => LET o == [a \in Axes |-> IF Active(a) THEN Pixel(origin[a + 1], AxisLen(IM, a))
                                ELSE 0]
           d == [a \in Axes |-> Min(o[a], AxisLen(IM, a) - 1 - o[a])]
           first == [a \in Axes |-> IF Active(a) THEN o[a] - d[a] ELSE 0]
       IN  /\ ret.err = ""
           /\ \A a \in Axes :
                IF Active(a)
                THEN /\ AxisLen(ret.img, a) = 2 * d[a] + 1
                     /\ AxisLen(ret.img, a) <= AxisLen(IM, a)
                     /\ first[a] + (AxisLen(ret.img, a) - 1) \div 2 = o[a]
                ELSE AxisLen(ret.img, a) = AxisLen(IM, a)
           /\ \A p \in Cells(ret.img.rows, ret.img.cols) :
                ret.img.px[p] = InputCell(first[0] + p[1], first[1] + p[2])

\* C3 witness: an off-center origin has cropped both axes.
C3_Witness ==
    /\ SetCenterDone
    /\ crop = "valid_region"
    /\ axes = <<0, 1>>
    /\ IM.rows = 3 /\ IM.cols = 3
    /\ origin = <<Some(2 * Den), Some(Den)>>
    /\ ret.err = ""
    /\ Shape(ret.img) = <<1, 3>>
    /\ ret.img.px[<<0, 1>>] = InputCell(2, 1)

\* C4: maintain_data with any whole origin returns, on each active axis,
\* length 2d+1 >= shape, d = max(origin, shape-1-origin), the whole input
\* unmodified from offset d - origin, zero everywhere else, and the origin
\* sample at the center index d.
C4_MaintainDataPads ==
    (/\ SetCenterDone
     /\ crop = "maintain_data"
     /\ \A a \in Axes : Whole(origin[a + 1]))
    => LET o == [a \in Axes |-> IF Active(a) THEN Pixel(origin[a + 1], AxisLen(IM, a))
                                ELSE 0]
           d == [a \in Axes |-> Max(o[a], AxisLen(IM, a) - 1 - o[a])]
           off == [a \in Axes |-> IF Active(a) THEN d[a] - o[a] ELSE 0]
       IN  /\ ret.err = ""
           /\ \A a \in Axes :
                IF Active(a)
                THEN /\ AxisLen(ret.img, a) = 2 * d[a] + 1
                     /\ AxisLen(ret.img, a) >= AxisLen(IM, a)
                     /\ (AxisLen(ret.img, a) - 1) \div 2 = d[a]
                     /\ off[a] + o[a] = d[a]
                ELSE AxisLen(ret.img, a) = AxisLen(IM, a)
           /\ \A p \in Cells(ret.img.rows, ret.img.cols) :
                LET i == p[1] - off[0]
                    j == p[2] - off[1]
                IN  ret.img.px[p] =
                        IF i >= 0 /\ i < IM.rows /\ j >= 0 /\ j < IM.cols
                        THEN InputCell(i, j) ELSE Zero

\* C4 witness: an origin outside the image has padded the far side.
C4_Witness ==
    /\ SetCenterDone
    /\ crop = "maintain_data"
    /\ axes = <<0, 1>>
    /\ IM.rows = 2 /\ IM.cols = 3
    /\ origin = <<Some(3 * Den), Some(0)>>
    /\ ret.err = ""
    /\ Shape(ret.img) = <<7, 5>>
    /\ ret.img.px[<<0, 2>>] = InputCell(0, 0)
    /\ ret.img.px[<<6, 0>>] = Zero

\* C5: with axes = 0 the column axis is unchanged in shape and content, for
\* every crop option and origin: the output has the input's columns, and
\* every non-zero cell of output column j is sampled in input column j.
\* Stated here for the origins inside the image, whole or fractional.
C5_AxesZeroLeavesColumns ==
    (/\ SetCenterDone
     /\ axes = <<0>>
     /\ \A a \in Axes : Inside(origin[a + 1], AxisLen(IM, a))
     /\ ret.err = "")
    => /\ ret.img.cols = IM.cols
       /\ \A p \in Cells(ret.img.rows, ret.img.cols) :
            IsZero(ret.img.px[p]) \/ ret.img.px[p][2] = Some(p[2] * Den)

\* C6: for an odd-sized image and each of the three crop options, set_center
\* with the origin found by find_origin_by_center_of_image returns the input.
C6_ImageCenterIsNoOp ==
    (/\ SetCenterDone
     /\ method = "image_center"
     /\ IM.rows % 2 = 1 /\ IM.cols % 2 = 1
     /\ crop \in {"maintain_size", "valid_region", "maintain_data"})
    => ret = Return(IM)

\* C6 witness: a 3 x 1 image was centered at its found origin (1, 0).
C6_Witness ==
    /\ SetCenterDone
    /\ method = "image_center"
    /\ IM.rows = 3 /\ IM.cols = 1
    /\ origin = <<Some(Den), Some(0)>>
    /\ crop = "valid_region"
    /\ ret.img = IM

\* C7: a crop option other than the three always ends in ValueError with no
\* image returned, for every origin, axes value and order.
C7_InvalidCropRaises ==
    (SetCenterDone /\ crop \notin {"maintain_size", "valid_region", "maintain_data"})
    => ret.err = "ValueError" /\ ret.img = NoImage

\* C7 witness: the error was raised after a subpixel shift had been done.
C7_Witness ==
    /\ SetCenterDone
    /\ crop = "bogus"
    /\ order = 3
    /\ Fractional(origin[1])
    /\ ret.err = "ValueError"

CenterImageDone == pc = "done" /\ pre # NoImage

\* C8: center_image with square = True hands a square, non-empty image to
\* the origin finder and set_center whenever rows != cols, for both values
\* of odd_size; so with crop = 'maintain_size' the returned image is square.
C8_SquareIsSquare ==
    (CenterImageDone /\ square /\ IM.rows # IM.cols)
    => /\ pre.rows = pre.cols
       /\ pre.rows >= 1
       /\ (crop = "maintain_size" /\ ret.err = "") => ret.img.rows = ret.img.cols

\* C9: center_image with odd_size = True returns an image with an odd
\* number of columns, for every shape, crop option and axes value, and every
\* origin given as a pair or found by a method.  Stated here for the origins
\* that lie inside the image handed to set_center, whole or fractional.
C9_OddSizeIsOdd ==
    (/\ CenterImageDone
     /\ odd_size
     /\ method = "given" => \A a \in Axes : Inside(origin[a + 1], AxisLen(pre, a))
     /\ ret.err = "")
    => ret.img.cols % 2 = 1

SliceDone == pc = "done" /\ method = "slice"

\* C10: find_origin_by_slice runs the minimizer for the requested axes only,
\* axis 0 before axis 1; a reported failure ends the call at once in an error
\* naming that axis, with no origin returned and no later axis attempted;
\* without a failure every requested axis is run and an origin returned.
C10_SliceFitFailureRaises ==
    SliceDone =>
        LET requested == {axis[k] : k \in DOMAIN axis}
            n == Len(calls)
        IN  /\ \A k \in 1 .. n : calls[k].axis \in requested
            /\ \A k \in 1 .. n - 1 : calls[k].axis < calls[k + 1].axis
            /\ \A k \in 1 .. n :
                 ~calls[k].fit.success =>
                    /\ k = n
                    /\ ret.err = "RuntimeError"
                    /\ ret.msg = (IF calls[k].axis = 0
                                  THEN "fit failure: axis = 0, zero shift set"
                                  ELSE "fit failure: axis = 1, zero shift set")
                    /\ origin = <<>>
            /\ (\A k \in 1 .. n : calls[k].fit.success) =>
                    /\ {calls[k].axis : k \in 1 .. n} = requested
                    /\ ret.err = ""
                    /\ origin # <<>>

\* C10 witness: both axes requested, the fit of axis 0 failed, axis 1 was
\* never tried.
C10_Witness ==
    /\ SliceDone
    /\ axis = <<0, 1>>
    /\ Len(calls) = 1
    /\ calls[1].axis = 0
    /\ ~calls[1].fit.success
    /\ ret.err = "RuntimeError"
    /\ origin = <<>>

ConvolutionDone == pc = "done" /\ method = "convolution"

\* C11: find_origin_by_convolution of an image that is zero except for one
\* non-zero pixel at (r0, c0) returns exactly (r0, c0), for every shape and
\* every pixel position.
C11_ConvolutionFindsImpulse ==
    ConvolutionDone =>
        \A p \in Cells(IM.rows, IM.cols) :
            (/\ IM.px[p] # 0
             /\ \A q \in Cells(IM.rows, IM.cols) : q # p => IM.px[q] = 0)
            => origin = <<Some(p[1] * Den), Some(p[2] * Den)>>

\* C11 witness: a negative impulse in the last row of a 3 x 2 image was found.
C11_Witness ==
    /\ ConvolutionDone
    /\ IM.rows = 3 /\ IM.cols = 2
    /\ IM.px[<<2, 1>>] = -1
    /\ \A q \in Cells(3, 2) : q # <<2, 1>> => IM.px[q] = 0
    /\ origin = <<Some(2 * Den), Some(Den)>>

\* The offset find_origin_by_slice subtracts on axis a: minus half the shift
\* the minimizer reported for it, 0 for an axis the minimizer was not run for.
FitOffset(a) ==
    IF \E k \in 1 .. Len(calls) : calls[k].axis = a
    THEN LET k == CHOOSE l \in 1 .. Len(calls) : calls[l].axis = a
         IN  -(calls[k].fit.x \div 2)
    ELSE 0

\* C12: find_origin_by_slice returns (r2 - rowOffset, c2 - colOffset) with
\* r2 = rows//2 + rows%2 and c2 = cols//2 + cols%2, the center coordinates of
\* the slice extractor; an unrequested axis returns exactly r2 (resp. c2),
\* for odd and even sizes alike.
C12_SliceOriginAtExtractorCenter ==
    (SliceDone /\ ret.err = "")
    => origin = <<Some(((IM.rows \div 2) + (IM.rows % 2)) * Den - FitOffset(0)),
                  Some(((IM.cols \div 2) + (IM.cols % 2)) * Den - FitOffset(1))>>

\* C12 amended: the returned origin is (rows//2 - rowOffset,
\* cols//2 - colOffset); an unrequested axis returns exactly rows//2 (resp.
\* cols//2), which is the extractor's r2 (c2) for an even size and one less
\* for an odd size.
C12_SliceOriginAtFloorCenter ==
    (SliceDone /\ ret.err = "")
    => /\ origin = <<Some((IM.rows \div 2) * Den - FitOffset(0)),
                     Some((IM.cols \div 2) * Den - FitOffset(1))>>
       /\ \A a \in Axes :
            LET n == AxisLen(IM, a)
                r2 == axis_slices_center(IM)[a + 1]
            IN  a \notin {axis[k] : k \in DOMAIN axis} =>
                    origin[a + 1] = Some((r2 - (n % 2)) * Den)

\* C12 witness: only axis 1 was requested on a 3 x 2 image; the row is
\* rows//2 = 1 (the extractor's r2 is 2) and the column is c2 = 1 plus half
\* the reported shift.
C12_Witness ==
    /\ SliceDone
    /\ ret.err = ""
    /\ IM.rows = 3 /\ IM.cols = 2
    /\ axis = <<1>>
    /\ Len(calls) = 1
    /\ calls[1].fit.x = 2
    /\ origin = <<Some(Den), Some(Den + 1)>>
    /\ axis_slices_center(IM) = <<2, 1>>
====
